---------------------------- MODULE Spec2Model ----------------------------
(***************************************************************************)
(* A model of publish.py: the Markdown-to-HTML essay converter.            *)
(*                                                                         *)
(* A text is a sequence of characters, each character a one-character      *)
(* string.  Every regular-expression substitution of the program is an     *)
(* operator that computes what re.sub / re.search / re.split compute for   *)
(* that pattern.  main() is a state machine over the program counter pc.   *)
(***************************************************************************)
EXTENDS Integers, Sequences, FiniteSets, TLC

VARIABLES
    argv,          \* sys.argv[1:], a sequence of texts (file, title)
    file_exists,   \* whether the file argv names exists
    disk,          \* the content of that file (empty when there is none)
    pc,            \* the position of main()
    md_content,    \* main's md_content
    from_heading,  \* TRUE when the title was taken from a "# " line
    title,         \* main's title
    html,          \* markdown_to_html's html, before the paragraph split
    processed,     \* markdown_to_html's processed, the list of blocks
    html_content,  \* main's html_content, the fragment
    full_html,     \* main's full_html
    output_file,   \* the name of the output file under essays/
    essays,        \* the files under essays/: a set of <<name, content>>
    out_state,     \* "none", "open" or "closed": the output file handle
    stdout,        \* what was printed, in order
    script_exists, \* what update_script.exists() answered
    refresh_calls, \* how many times os.system ran the refresh script
    refresh_status,\* what os.system returned
    exit_code      \* -1 while running, then the process's exit status

vars == <<argv, file_exists, disk, pc, md_content, from_heading, title, html,
          processed, html_content, full_html, output_file, essays, out_state,
          stdout, script_exists, refresh_calls, refresh_status, exit_code>>

-----------------------------------------------------------------------------
(* Characters and texts *)

NL == "\n"
TAB == "\t"
SP == " "
\* The backtick character (a string literal of the module cannot hold it).
BQ == "BQ"

\* What Python's \s and str.strip() treat as whitespace, within the alphabet.
Whitespace == {SP, NL, TAB}

Alphabet == <<"a", "b", "c", "d", "e", "f", "g", "h", "i", "j", "k", "l", "m",
              "n", "o", "p", "q", "r", "s", "t", "u", "v", "w", "x", "y", "z">>
AlphabetUpper == <<"A", "B", "C", "D", "E", "F", "G", "H", "I", "J", "K", "L", "M",
                   "N", "O", "P", "Q", "R", "S", "T", "U", "V", "W", "X", "Y", "Z">>

LowerLetters == {Alphabet[i] : i \in 1..26}
UpperLetters == {AlphabetUpper[i] : i \in 1..26}
Digits == {"0", "1", "2", "3", "4", "5", "6", "7", "8", "9"}

\* str.lower() and str.upper() on one character.
LowerChar(c) ==
    IF c \in UpperLetters
    THEN Alphabet[CHOOSE i \in 1..26 : AlphabetUpper[i] = c]
    ELSE c

UpperChar(c) ==
    IF c \in LowerLetters
    THEN AlphabetUpper[CHOOSE i \in 1..26 : Alphabet[i] = c]
    ELSE c

IsCased(c) == c \in LowerLetters \cup UpperLetters

RECURSIVE Flatten(_)
\* The concatenation of a sequence of texts.
Flatten(ss) == IF ss = <<>> THEN <<>> ELSE Head(ss) \o Flatten(Tail(ss))

\* s[i..] starts with p.
IsPrefixAt(s, i, p) ==
    /\ i >= 1
    /\ i + Len(p) - 1 <= Len(s)
    /\ \A k \in 1..Len(p) : s[i + k - 1] = p[k]

Min(S) == CHOOSE m \in S : \A n \in S : m <= n
Max(S) == CHOOSE m \in S : \A n \in S : m >= n

\* The text from position i to the end.
From(s, i) == SubSeq(s, i, Len(s))

\* str.strip(): leading and trailing whitespace removed.
Strip(s) ==
    LET keep == {i \in 1..Len(s) : s[i] \notin Whitespace}
    IN  IF keep = {} THEN <<>> ELSE SubSeq(s, Min(keep), Max(keep))

\* str.startswith
StartsWith(s, p) == IsPrefixAt(s, 1, p)

\* str.replace(old, new) for a one-character old; also re.sub(r'\n', ' ', p).
ReplaceChar(s, old, new) == [i \in 1..Len(s) |-> IF s[i] = old THEN new ELSE s[i]]

\* The lines of a text: str.split('\n').
RECURSIVE Lines(_)
Lines(s) ==
    LET nls == {i \in 1..Len(s) : s[i] = NL}
    IN  IF nls = {} THEN <<s>>
        ELSE <<SubSeq(s, 1, Min(nls) - 1)>> \o Lines(From(s, Min(nls) + 1))

RECURSIVE JoinWith(_, _)
\* sep.join(parts)
JoinWith(parts, sep) ==
    IF parts = <<>> THEN <<>>
    ELSE IF Len(parts) = 1 THEN parts[1]
    ELSE parts[1] \o sep \o JoinWith(Tail(parts), sep)

-----------------------------------------------------------------------------
(* The regular expressions of markdown_to_html *)

Txt3Dash == <<"-", "-", "-", NL>>

\* StripFrontMatter with a greedy .* in place of the lazy .*?: the block runs
\* to the last "---\n" of the text.
StripFrontMatterGreedy(s) ==
    LET closes == {j \in 5..Len(s) : IsPrefixAt(s, j, Txt3Dash)}
    IN  IF IsPrefixAt(s, 1, Txt3Dash) /\ closes # {}
        THEN From(s, Max(closes) + 4)
        ELSE s

\* re.sub(r'^---\n.*?---\n', '', html, flags=re.DOTALL): without re.MULTILINE
\* the ^ matches at the start of the text only, so at most one block goes: the
\* text must start with "---\n", and the lazy .*? (DOTALL: newlines included)
\* ends at the first later "---\n", wherever in a line it sits.
StripFrontMatter(s) ==
    LET closes == {j \in 5..Len(s) : IsPrefixAt(s, j, Txt3Dash)}
    IN  IF IsPrefixAt(s, 1, Txt3Dash) /\ closes # {}
        THEN From(s, Min(closes) + 4)
        ELSE s

\* One line under re.sub(r'^<marker> (.+)$', r'<hN>\1</hN>', flags=re.MULTILINE):
\* the line starts with the marker and a space and has at least one more
\* character (. is any character but the newline).
HeaderLine(line, marker, open, close) ==
    IF StartsWith(line, marker \o <<SP>>) /\ Len(line) > Len(marker) + 1
    THEN open \o From(line, Len(marker) + 2) \o close
    ELSE line

\* The substitution over the whole text: ^ and $ are line anchors, so it acts
\* on each line by itself.
HeaderSub(s, marker, open, close) ==
    LET ls == Lines(s)
    IN  JoinWith([i \in 1..Len(ls) |-> HeaderLine(ls[i], marker, open, close)], <<NL>>)

H1Open == <<"<", "h", "1", ">">>
H1Close == <<"<", "/", "h", "1", ">">>
H2Open == <<"<", "h", "2", ">">>
H2Close == <<"<", "/", "h", "2", ">">>
H3Open == <<"<", "h", "3", ">">>
H3Close == <<"<", "/", "h", "3", ">">>
H4Open == <<"<", "h", "4", ">">>
H4Close == <<"<", "/", "h", "4", ">">>

\* Lines 21-24: the four header substitutions, longest marker first.
ConvertHeaders(s) ==
    LET a == HeaderSub(s, <<"#", "#", "#", "#">>, H4Open, H4Close)
        b == HeaderSub(a, <<"#", "#", "#">>, H3Open, H3Close)
        c == HeaderSub(b, <<"#", "#">>, H2Open, H2Close)
    IN  HeaderSub(c, <<"#">>, H1Open, H1Close)

\* The lengths k >= 1 of an inner text at s[i..] that a delimited pattern
\* open(.+?)close can take: no character of excl in it, and close right after.
InnerLengths(s, i, close, excl) ==
    {k \in 1..Len(s) :
        /\ i + k - 1 + Len(close) <= Len(s)
        /\ \A m \in i..(i + k - 1) : s[m] \notin excl
        /\ IsPrefixAt(s, i + k, close)}

RECURSIVE DelimSubFrom(_, _, _, _, _, _, _)
\* re.sub of the pattern open(inner)close by pre \1 post, scanning from
\* position i: the leftmost match, the shortest inner text, then on from the
\* end of the match (matches do not overlap).
DelimSubFrom(s, i, open, close, excl, pre, post) ==
    IF i > Len(s) THEN <<>>
    ELSE LET ks == IF IsPrefixAt(s, i, open)
                   THEN InnerLengths(s, i + Len(open), close, excl)
                   ELSE {}
         IN  IF ks # {}
             THEN LET k == Min(ks)
                  IN  pre \o SubSeq(s, i + Len(open), i + Len(open) + k - 1) \o post
                      \o DelimSubFrom(s, i + Len(open) + k + Len(close),
                                      open, close, excl, pre, post)
             ELSE <<s[i]>> \o DelimSubFrom(s, i + 1, open, close, excl, pre, post)

DelimSub(s, delim, excl, pre, post) == DelimSubFrom(s, 1, delim, delim, excl, pre, post)

StrongOpen == <<"<", "s", "t", "r", "o", "n", "g", ">">>
StrongClose == <<"<", "/", "s", "t", "r", "o", "n", "g", ">">>
EmOpen == <<"<", "e", "m", ">">>
EmClose == <<"<", "/", "e", "m", ">">>
CodeOpen == <<"<", "c", "o", "d", "e", ">">>
CodeClose == <<"<", "/", "c", "o", "d", "e", ">">>

\* ConvertEmphasis with the two-character forms tried before the
\* three-character ones.
ConvertEmphasisDoubleFirst(s) ==
    LET a == DelimSub(s, <<"*", "*">>, {NL}, StrongOpen, StrongClose)
        b == DelimSub(a, <<"*", "*", "*">>, {NL}, StrongOpen \o EmOpen, EmClose \o StrongClose)
        c == DelimSub(b, <<"*">>, {NL}, EmOpen, EmClose)
        d == DelimSub(c, <<"_", "_">>, {NL}, StrongOpen, StrongClose)
        e == DelimSub(d, <<"_", "_", "_">>, {NL}, StrongOpen \o EmOpen, EmClose \o StrongClose)
    IN  DelimSub(e, <<"_">>, {NL}, EmOpen, EmClose)

\* Lines 27-32: bold and italic, the star forms then the underscore forms.
ConvertEmphasis(s) ==
    LET a == DelimSub(s, <<"*", "*", "*">>, {NL}, StrongOpen \o EmOpen, EmClose \o StrongClose)
        b == DelimSub(a, <<"*", "*">>, {NL}, StrongOpen, StrongClose)
        c == DelimSub(b, <<"*">>, {NL}, EmOpen, EmClose)
        d == DelimSub(c, <<"_", "_", "_">>, {NL}, StrongOpen \o EmOpen, EmClose \o StrongClose)
        e == DelimSub(d, <<"_", "_">>, {NL}, StrongOpen, StrongClose)
    IN  DelimSub(e, <<"_">>, {NL}, EmOpen, EmClose)

\* The anchor tag of r'<a href="\2">\1</a>'.
Anchor(text, url) ==
    <<"<", "a", " ", "h", "r", "e", "f", "=", "\"">> \o url \o <<"\"", ">">>
        \o text \o <<"<", "/", "a", ">">>

\* The end of the maximal run of characters other than stop from s[i].
RunEnd(s, i, stop) ==
    LET stops == {j \in i..Len(s) : s[j] = stop}
    IN  IF stops = {} THEN Len(s) ELSE Min(stops) - 1

RECURSIVE ConvertLinksFrom(_, _)
\* Line 35: re.sub(r'\[([^\]]+)\]\(([^)]+)\)', r'<a href="\2">\1</a>', html).
\* A match at i: "[", one or more characters other than "]", "](", one or
\* more characters other than ")", ")".
ConvertLinksFrom(s, i) ==
    IF i > Len(s) THEN <<>>
    ELSE LET te == RunEnd(s, i + 1, "]")
             ue == RunEnd(s, te + 3, ")")
             hit == /\ s[i] = "["
                    /\ te >= i + 1
                    /\ IsPrefixAt(s, te + 1, <<"]", "(">>)
                    /\ ue >= te + 3
                    /\ ue + 1 <= Len(s)
         IN  IF hit
             THEN Anchor(SubSeq(s, i + 1, te), SubSeq(s, te + 3, ue))
                      \o ConvertLinksFrom(s, ue + 2)
             ELSE <<s[i]>> \o ConvertLinksFrom(s, i + 1)

ConvertLinks(s) == ConvertLinksFrom(s, 1)

\* Line 38: the inline code substitution, backtick, one or more characters
\* other than the backtick, backtick (newlines included).
ConvertCode(s) == DelimSub(s, <<BQ>>, {BQ}, CodeOpen, CodeClose)

\* Lines 21-38: the substitutions in the order of the code.
ConvertInline(s) == ConvertCode(ConvertLinks(ConvertEmphasis(ConvertHeaders(s))))

RECURSIVE SplitParagraphs(_)
\* re.split(r'\n\s*\n', s): the leftmost newline that whitespace alone
\* separates from a later newline starts a separator, which runs (greedy \s*)
\* to the last such newline.
SplitParagraphs(s) ==
    LET ends(i) == {j \in (i + 1)..Len(s) :
                       s[j] = NL /\ \A m \in (i + 1)..(j - 1) : s[m] \in Whitespace}
        starts == {i \in 1..Len(s) : s[i] = NL /\ ends(i) # {}}
    IN  IF starts = {} THEN <<s>>
        ELSE LET i == Min(starts)
                 j == Max(ends(i))
             IN  <<SubSeq(s, 1, i - 1)>> \o SplitParagraphs(From(s, j + 1))

\* KeepAsIs for headings alone.
KeepAsIsHeadingsOnly(p) == StartsWith(p, <<"<", "h">>)

\* Line 49: the paragraphs left as they are.
KeepAsIs(p) ==
    \/ StartsWith(p, <<"<", "h">>)
    \/ StartsWith(p, <<"<", "u", "l">>)
    \/ StartsWith(p, <<"<", "o", "l">>)

POpen == <<"<", "p", ">">>
PClose == <<"<", "/", "p", ">">>

\* Lines 52-54: single newlines to spaces, wrapped in <p>.
WrapParagraph(p) == POpen \o ReplaceChar(p, NL, SP) \o PClose

RECURSIVE ProcessParagraphs(_)
\* Lines 43-54: the loop over the paragraphs.
ProcessParagraphs(ps) ==
    IF ps = <<>> THEN <<>>
    ELSE LET p == Strip(Head(ps))
             rest == ProcessParagraphs(Tail(ps))
         IN  IF p = <<>> THEN rest
             ELSE IF KeepAsIs(p) THEN <<p>> \o rest
             ELSE <<WrapParagraph(p)>> \o rest

Indent == [i \in 1..12 |-> SP]

\* The separator of line 56: '\n            \n            '.
BlockSeparator == <<NL>> \o Indent \o <<NL>> \o Indent

\* Lines 41-54: the blocks of the fragment.
Blocks(s) == ProcessParagraphs(SplitParagraphs(Strip(s)))

\* markdown_to_html as one function.
markdown_to_html(md_text) ==
    JoinWith(Blocks(ConvertInline(StripFrontMatter(md_text))), BlockSeparator)

-----------------------------------------------------------------------------
(* The page template, the title and the file name *)

\* The literal text of the template between its placeholders, each stretch
\* one token: lines 60-65, 65-152, 152-153, 153-164 and 164-175.
TemplateHead == <<"<!DOCTYPE html>...<title>">>
TemplateStyle == <<" - Daksh Mehta</title>...<h1>">>
TemplateDate == <<"</h1>...<div class=\"date\">">>
TemplateNav == <<"</div>...<div class=\"content\">">>
TemplateFoot == <<"</div>...</html>">>
DefaultDate == <<"2", "0", "2", "6">>

create_essay_html(t, content) ==
    TemplateHead \o t \o TemplateStyle \o t \o TemplateDate \o DefaultDate
        \o TemplateNav \o content \o TemplateFoot

\* Path(filename).name for a path that names a file: what follows the last "/".
PathName(path) ==
    LET slashes == {i \in 1..Len(path) : path[i] = "/"}
    IN  IF slashes = {} THEN path ELSE From(path, Max(slashes) + 1)

\* Path(filename).stem: the name without its last suffix; a dot that starts or
\* ends the name starts no suffix.
PathStem(path) ==
    LET name == PathName(path)
        dots == {i \in 1..Len(name) : name[i] = "."}
    IN  IF dots # {} /\ Max(dots) > 1 /\ Max(dots) < Len(name)
        THEN SubSeq(name, 1, Max(dots) - 1)
        ELSE name

\* str.title(): a cased character is upper-cased when the character before it
\* is not cased and lower-cased when it is.
TitleCase(s) ==
    [i \in 1..Len(s) |->
        IF ~IsCased(s[i]) THEN s[i]
        ELSE IF i > 1 /\ IsCased(s[i - 1]) THEN LowerChar(s[i])
        ELSE UpperChar(s[i])]

\* title_from_filename with the underscores left in place.
title_from_filename_hyphens_only(filename) ==
    TitleCase(ReplaceChar(PathStem(filename), "-", SP))

title_from_filename(filename) ==
    TitleCase(ReplaceChar(ReplaceChar(PathStem(filename), "-", SP), "_", SP))

\* re.search(r'^# (.+)$', md_content, re.MULTILINE): the lines that match.
HeadingLines(s) ==
    LET ls == Lines(s)
    IN  {i \in 1..Len(ls) : StartsWith(ls[i], <<"#", SP>>) /\ Len(ls[i]) > 2}

\* title_match.group(1) of the first match.
FirstHeading(s) == From(Lines(s)[Min(HeadingLines(s))], 3)

\* re.sub(r'^# .+\n', '', md_content, count=1): no re.MULTILINE, so the ^ is
\* the start of the text, and the line must end in a newline.
RemoveTitleLine(s) ==
    LET first == Lines(s)[1]
    IN  IF StartsWith(first, <<"#", SP>>) /\ Len(first) > 2 /\ Len(s) > Len(first)
        THEN From(s, Len(first) + 2)
        ELSE s

LowerText(s) == [i \in 1..Len(s) |-> LowerChar(s[i])]

\* re.sub(r'[^a-z0-9\s-]', '', filename)
KeepSlugChars(s) ==
    SelectSeq(s, LAMBDA c : c \in LowerLetters \cup Digits \cup Whitespace \cup {"-"})

\* CollapseWhitespace with \s in place of \s+: a hyphen for each whitespace
\* character.
CollapseEachWhitespace(s) ==
    [i \in 1..Len(s) |-> IF s[i] \in Whitespace THEN "-" ELSE s[i]]

RECURSIVE CollapseWhitespace(_)
\* re.sub(r'\s+', '-', filename)
CollapseWhitespace(s) ==
    IF s = <<>> THEN <<>>
    ELSE IF Head(s) \in Whitespace
    THEN LET rest == {i \in 1..Len(s) : s[i] \notin Whitespace}
         IN  <<"-">> \o (IF rest = {} THEN <<>> ELSE CollapseWhitespace(From(s, Min(rest))))
    ELSE <<Head(s)>> \o CollapseWhitespace(Tail(s))

DotHtml == <<".", "h", "t", "m", "l">>

filename_from_title(t) == CollapseWhitespace(KeepSlugChars(LowerText(t))) \o DotHtml

-----------------------------------------------------------------------------
(* main() *)

\* The essays directory before the run: one older essay.
OldEssay == <<<<"a">> \o DotHtml, <<"old">>>>
InitialEssays == {OldEssay}

\* open(output_file, 'w') and f.write: the file of that name holds content.
WriteEssay(dir, name, content) ==
    {e \in dir : e[1] # name} \cup {<<name, content>>}

\* What os.system may return.
RefreshStatuses == {0, 256}

InitOf(argvs, disks) ==
    /\ argv \in argvs
    /\ \/ file_exists = TRUE /\ disk \in disks
       \/ file_exists = FALSE /\ disk = <<>>
    /\ pc = "start"
    /\ md_content = <<>>
    /\ from_heading = FALSE
    /\ title = <<>>
    /\ html = <<>>
    /\ processed = <<>>
    /\ html_content = <<>>
    /\ full_html = <<>>
    /\ output_file = <<>>
    /\ essays = InitialEssays
    /\ out_state = "none"
    /\ stdout = <<>>
    /\ script_exists = FALSE
    /\ refresh_calls = 0
    /\ refresh_status = 0
    /\ exit_code = -1

Exit(code) == pc' = "exit" /\ exit_code' = code

\* Lines 192-198.
CheckArgs ==
    /\ pc = "start"
    /\ IF Len(argv) < 1
       THEN /\ stdout' = stdout \o <<"usage", "example", "example_title">>
            /\ Exit(1)
       ELSE /\ pc' = "exists"
            /\ UNCHANGED <<stdout, exit_code>>
    /\ UNCHANGED <<argv, file_exists, disk, md_content, from_heading, title, html, processed,
                   html_content, full_html, output_file, essays, out_state,
                   script_exists, refresh_calls, refresh_status>>

\* CheckExists without the existence check of line 200.
CheckExistsUnchecked ==
    /\ pc = "exists"
    /\ pc' = "read"
    /\ UNCHANGED <<argv, file_exists, disk, md_content, from_heading, title, html,
                   processed, html_content, full_html, output_file, essays,
                   out_state, stdout, script_exists, refresh_calls,
                   refresh_status, exit_code>>

\* Lines 200-202.
CheckExists ==
    /\ pc = "exists"
    /\ IF ~file_exists
       THEN /\ stdout' = stdout \o <<"not_found">>
            /\ Exit(1)
       ELSE /\ pc' = "read"
            /\ UNCHANGED <<stdout, exit_code>>
    /\ UNCHANGED <<argv, file_exists, disk, md_content, from_heading, title, html, processed,
                   html_content, full_html, output_file, essays, out_state,
                   script_exists, refresh_calls, refresh_status>>

\* Lines 205-206; an unreadable file raises, and the process ends with status 1.
ReadFile ==
    /\ pc = "read"
    /\ \E ok \in BOOLEAN :
         IF ok
         THEN /\ md_content' = disk
              /\ pc' = "title"
              /\ UNCHANGED exit_code
         ELSE /\ Exit(1)
              /\ UNCHANGED md_content
    /\ UNCHANGED <<argv, file_exists, disk, from_heading, title, html, processed,
                   html_content, full_html, output_file, essays, out_state,
                   stdout, script_exists, refresh_calls, refresh_status>>

\* Lines 209-219.
ResolveTitle ==
    /\ pc = "title"
    /\ IF Len(argv) >= 2
       THEN /\ title' = argv[2]
            /\ UNCHANGED <<md_content, from_heading>>
       ELSE IF HeadingLines(md_content) # {}
       THEN /\ title' = FirstHeading(md_content)
            /\ md_content' = RemoveTitleLine(md_content)
            /\ from_heading' = TRUE
       ELSE /\ title' = title_from_filename(argv[1])
            /\ UNCHANGED <<md_content, from_heading>>
    /\ pc' = "frontmatter"
    /\ UNCHANGED <<argv, file_exists, disk, html, processed, html_content, full_html,
                   output_file, essays, out_state, stdout, script_exists,
                   refresh_calls, refresh_status, exit_code>>

\* Lines 15-18 of markdown_to_html, called at line 222.
FrontMatter ==
    /\ pc = "frontmatter"
    /\ html' = StripFrontMatter(md_content)
    /\ pc' = "inline"
    /\ UNCHANGED <<argv, file_exists, disk, md_content, from_heading, title, processed,
                   html_content, full_html, output_file, essays, out_state,
                   stdout, script_exists, refresh_calls, refresh_status, exit_code>>

\* Lines 21-38.
Inline ==
    /\ pc = "inline"
    /\ html' = ConvertInline(html)
    /\ pc' = "paragraphs"
    /\ UNCHANGED <<argv, file_exists, disk, md_content, from_heading, title, processed,
                   html_content, full_html, output_file, essays, out_state,
                   stdout, script_exists, refresh_calls, refresh_status, exit_code>>

\* Lines 41-56, and the return to line 222.
Paragraphs ==
    /\ pc = "paragraphs"
    /\ processed' = Blocks(html)
    /\ html_content' = JoinWith(processed', BlockSeparator)
    /\ pc' = "render"
    /\ UNCHANGED <<argv, file_exists, disk, md_content, from_heading, title, html,
                   full_html, output_file, essays, out_state,
                   stdout, script_exists, refresh_calls, refresh_status, exit_code>>

\* Lines 225-230.
Render ==
    /\ pc = "render"
    /\ full_html' = create_essay_html(title, html_content)
    /\ output_file' = filename_from_title(title)
    /\ pc' = "open"
    /\ UNCHANGED <<argv, file_exists, disk, md_content, from_heading, title, html, processed,
                   html_content, essays, out_state,
                   stdout, script_exists, refresh_calls, refresh_status, exit_code>>

\* Line 233: open(output_file, 'w') truncates the file, or raises (no essays
\* directory, no permission) and the process ends with status 1.
OpenOutput ==
    /\ pc = "open"
    /\ \E ok \in BOOLEAN :
         IF ok
         THEN /\ essays' = WriteEssay(essays, output_file, <<>>)
              /\ out_state' = "open"
              /\ pc' = "write"
              /\ UNCHANGED exit_code
         ELSE /\ Exit(1)
              /\ UNCHANGED <<essays, out_state>>
    /\ UNCHANGED <<argv, file_exists, disk, md_content, from_heading, title, html, processed,
                   html_content, full_html, output_file,
                   stdout, script_exists, refresh_calls, refresh_status>>

\* Line 234 and the end of the with block, which closes the file on both
\* paths; a failed write raises and the process ends with status 1.
WriteOutput ==
    /\ pc = "write"
    /\ out_state' = "closed"
    /\ \E ok \in BOOLEAN :
         IF ok
         THEN /\ essays' = WriteEssay(essays, output_file, full_html)
              /\ pc' = "print"
              /\ UNCHANGED exit_code
         ELSE /\ Exit(1)
              /\ UNCHANGED essays
    /\ UNCHANGED <<argv, file_exists, disk, md_content, from_heading, title, html, processed,
                   html_content, full_html, output_file,
                   stdout, script_exists, refresh_calls, refresh_status>>

\* Line 236.
PrintCreated ==
    /\ pc = "print"
    /\ stdout' = stdout \o <<"created">>
    /\ pc' = "refresh"
    /\ UNCHANGED <<argv, file_exists, disk, md_content, from_heading, title, html, processed,
                   html_content, full_html, output_file, essays, out_state,
                   script_exists, refresh_calls, refresh_status, exit_code>>

\* Refresh with the script's status passed on as the exit status.
RefreshPassesStatus ==
    /\ pc = "refresh"
    /\ \E e \in BOOLEAN :
         /\ script_exists' = e
         /\ IF e
            THEN /\ refresh_calls' = refresh_calls + 1
                 /\ refresh_status' \in RefreshStatuses
                 /\ exit_code' = IF refresh_status' = 0 THEN 0 ELSE 1
            ELSE /\ exit_code' = 0
                 /\ UNCHANGED <<refresh_calls, refresh_status>>
    /\ pc' = "exit"
    /\ UNCHANGED <<argv, file_exists, disk, md_content, from_heading, title, html,
                   processed, html_content, full_html, output_file, essays,
                   out_state, stdout>>

\* Lines 239-241, and main's return: the status os.system returns is dropped.
Refresh ==
    /\ pc = "refresh"
    /\ \E e \in BOOLEAN :
         /\ script_exists' = e
         /\ IF e
            THEN /\ refresh_calls' = refresh_calls + 1
                 /\ refresh_status' \in RefreshStatuses
            ELSE UNCHANGED <<refresh_calls, refresh_status>>
    /\ Exit(0)
    /\ UNCHANGED <<argv, file_exists, disk, md_content, from_heading, title, html, processed,
                   html_content, full_html, output_file, essays, out_state, stdout>>

Next ==
    \/ CheckArgs
    \/ CheckExists
    \/ ReadFile
    \/ ResolveTitle
    \/ FrontMatter
    \/ Inline
    \/ Paragraphs
    \/ Render
    \/ OpenOutput
    \/ WriteOutput
    \/ PrintCreated
    \/ Refresh

-----------------------------------------------------------------------------
(* The inputs of a run *)

\* The texts made of at most n tokens.
Texts(tokens, n) == UNION {{Flatten(f) : f \in [1..k -> tokens]} : k \in 0..n}

T_Hash == <<"#", SP>>
T_Md == <<".", "m", "d">>

EssayPath == <<"m", "y", "-", "e", "s", "s", "a", "y">> \o T_Md
DraftPath == <<"d", "r", "a", "f", "t", "s", "/", "a", "_", "b">> \o T_Md
CustomTitle == <<"M", "y", SP, "T", "i", "t", "l", "e">>
HelloWorld == <<"H", "e", "l", "l", "o", ",", SP, "W", "o", "r", "l", "d", "!">>

\* sys.argv[1:] for the given paths and titles: no argument, a file, a file
\* and a title.
Argvs(paths, titles) ==
    {<<>>} \cup {<<p>> : p \in paths} \cup {<<p, t>> : p \in paths, t \in titles}

MaxDocTokens == 3
DocTokens == {T_Hash, <<"a">>, <<NL>>, <<"-", "-", "-", NL>>}

Init ==
    InitOf(Argvs({EssayPath, DraftPath}, {CustomTitle, HelloWorld}),
           Texts(DocTokens, MaxDocTokens))

Spec == Init /\ [][Next]_vars

\* A path that names a file has a last component, which is neither "." nor "..".
IsFilePath(p) == PathName(p) \notin {<<>>, <<".">>, <<".", ".">>}

MaxPathTokens == 3
PathTokens == {<<"a">>, <<"B">>, <<"-">>, <<"_">>, <<".">>, <<"/">>}
FilePaths == {p \in Texts(PathTokens, MaxPathTokens) : IsFilePath(p)}
PathDocs == {<<>>, <<"b">>, <<"b", NL, "#", SP, "a", NL>>}

MaxTitleDocTokens == 5
TitleDocTokens == {T_Hash, <<"a">>, <<NL>>, <<"-", "-", "-", NL>>}

\* Runs for the title: many file names over a few documents, and many
\* documents under one file name.
InitTitle ==
    \/ InitOf({<<p>> : p \in FilePaths}, PathDocs)
    \/ InitOf(Argvs({EssayPath}, {CustomTitle}),
              Texts(TitleDocTokens, MaxTitleDocTokens))

SpecTitle == InitTitle /\ [][Next]_vars

MaxStripTokens == 5
StripTokens == {<<"-", "-", "-", NL>>, <<"-">>, <<"a">>, <<NL>>}

\* Runs over documents made of front-matter delimiters.
InitStrip ==
    InitOf(Argvs({EssayPath}, {CustomTitle}), Texts(StripTokens, MaxStripTokens))

SpecStrip == InitStrip /\ [][Next]_vars

MaxSlugTokens == 3
SlugTokens == {<<"a">>, <<"B">>, <<"3">>, <<SP>>, <<TAB>>, <<"-">>, <<"/">>, <<".">>}
SlugTitles == Texts(SlugTokens, MaxSlugTokens) \cup {HelloWorld, CustomTitle}

\* Runs with an explicit title.
InitSlug ==
    InitOf({<<>>, <<EssayPath>>} \cup {<<EssayPath, t>> : t \in SlugTitles},
           {<<"b">>, T_Hash \o <<"A", SP, "b", NL, "c">>})

SpecSlug == InitSlug /\ [][Next]_vars

MaxLinkTokens == 3
LinkTokens == {<<"a">>, <<"_">>, <<"*">>}
LinkParts == Texts(LinkTokens, MaxLinkTokens) \ {<<>>}

\* The Markdown link [text](url).
MdLink(text, url) == <<"[">> \o text \o <<"]", "(">> \o url \o <<")">>

\* Runs over documents that hold one link, at the start or after a word.
InitLinks ==
    InitOf(Argvs({EssayPath}, {CustomTitle}),
           {pre \o MdLink(t, u) : pre \in {<<>>, <<"b", SP>>}, t \in LinkParts, u \in LinkParts})

SpecLinks == InitLinks /\ [][Next]_vars

MaxBlockTokens == 4
BlockTokens == {<<"<", "h", "r", ">">>, <<"<", "u", "l", ">">>, T_Hash, <<"a">>, <<NL>>}
LineOneLineTwo == <<"a", SP, "1", NL, "a", SP, "2">>
BlockDocs ==
    Texts(BlockTokens, MaxBlockTokens)
        \cup {LineOneLineTwo,
              LineOneLineTwo \o <<NL, NL, "<", "o", "l", ">", NL, NL, "b", NL, SP, NL,
                                 "<", "h", "r", ">">>}

\* Runs over documents of several paragraphs, raw tags among them.
InitBlocks == InitOf(Argvs({EssayPath}, {CustomTitle}), BlockDocs)

SpecBlocks == InitBlocks /\ [][Next]_vars

MaxEmphasisTokens == 3
EmphasisTokens == {<<"a">>, <<SP>>, <<BQ>>, MdLink(<<"a">>, <<"b">>)}
Stars3 == <<"*", "*", "*">>
Unders3 == <<"_", "_", "_">>

\* Runs over the documents ***x*** and ___x___.
InitEmphasis ==
    InitOf(Argvs({EssayPath}, {CustomTitle}),
           {d \o x \o d : d \in {Stars3, Unders3}, x \in Texts(EmphasisTokens, MaxEmphasisTokens)})

SpecEmphasis == InitEmphasis /\ [][Next]_vars

-----------------------------------------------------------------------------
(* The claims *)

\* C1: with no file argument, or with a file argument naming no existing
\* file, the run goes no further than the checks of lines 192-202: it ends
\* with exit status 1 after printing the usage or the not-found message, no
\* file under essays/ is opened or changed, and the refresh script is not run.
C1_ErrorExitLeavesNoTrace ==
    (Len(argv) < 1 \/ ~file_exists) =>
        /\ pc \in {"start", "exists", "exit"}
        /\ essays = InitialEssays
        /\ out_state = "none"
        /\ refresh_calls = 0
        /\ pc = "exit" =>
             /\ exit_code = 1
             /\ stdout = IF Len(argv) < 1
                         THEN <<"usage", "example", "example_title">>
                         ELSE <<"not_found">>

\* A run that ended on a file argument naming no file.
C1_Witness ==
    /\ pc = "exit"
    /\ Len(argv) >= 1
    /\ ~file_exists
    /\ exit_code = 1

\* C6: the refresh script runs at most once, only when it exists and only
\* after the output file holds the whole page and is closed; the run then ends
\* with exit status 0 whatever the script returned; a run that ends with a
\* failure (the write's included) never ran it.
C6_RefreshAfterWrite ==
    /\ refresh_calls <= 1
    /\ refresh_calls = 1 =>
         /\ script_exists
         /\ out_state = "closed"
         /\ <<output_file, full_html>> \in essays
         /\ stdout = <<"created">>
         /\ pc = "exit"
         /\ exit_code = 0
    /\ (pc = "exit" /\ exit_code # 0) => refresh_calls = 0
    /\ (pc = "exit" /\ <<output_file, full_html>> \notin essays) => refresh_calls = 0
    /\ (out_state # "closed") => refresh_calls = 0

\* The refresh script ran and failed, and the run ended with status 0.
C6_Witness ==
    /\ refresh_calls = 1
    /\ refresh_status = 256
    /\ pc = "exit"
    /\ exit_code = 0

\* main is past line 219: the title is resolved.
TitleResolved ==
    \/ pc \in {"frontmatter", "inline", "paragraphs", "render", "open", "write",
               "print", "refresh"}
    \/ pc = "exit" /\ output_file # <<>>

\* A line of s has the form "# <text>": a "#" at the start of a line, a
\* space, and one more character of that line at least.
HasHeadingLine(s) ==
    \E i \in 1..(Len(s) - 2) :
        /\ i = 1 \/ s[i - 1] = NL
        /\ s[i] = "#"
        /\ s[i + 1] = SP
        /\ s[i + 2] # NL

\* The first line of s has that form.
FirstLineIsHeading(s) == Len(s) >= 3 /\ s[1] = "#" /\ s[2] = SP /\ s[3] # NL

\* t is the stem st with "-" and "_" turned to spaces and every word
\* capitalized: a letter that follows a letter in lower case, any other
\* letter in upper case.
IsTitleOfStem(t, st) ==
    /\ Len(t) = Len(st)
    /\ \A i \in 1..Len(st) :
         t[i] = IF st[i] \in {"-", "_"} THEN SP
                ELSE IF ~IsCased(st[i]) THEN st[i]
                ELSE IF i > 1 /\ IsCased(st[i - 1]) THEN LowerChar(st[i])
                ELSE UpperChar(st[i])

\* C2, as claimed: with no explicit title and a document whose first line is
\* not a "# <text>" heading, the title is the title of the file name.
C2_TitleFromFilenameWithoutLeadingHeading ==
    (TitleResolved /\ Len(argv) = 1 /\ ~FirstLineIsHeading(disk)) =>
        title = title_from_filename(argv[1])

\* C2, amended: with no explicit title and a document in which no line at
\* all (the first or a later one, front-matter included) has the form
\* "# <text>", the title is the file name's stem with "-" and "_" turned to
\* spaces and each word capitalized.
C2_TitleFromFilenameWithoutAnyHeading ==
    (TitleResolved /\ Len(argv) = 1 /\ ~HasHeadingLine(disk)) =>
        /\ ~from_heading
        /\ IsTitleOfStem(title, PathStem(argv[1]))

\* A title made from a file name with a directory, a hyphen, an underscore
\* and a suffix, the document holding no heading.
C2_Witness ==
    /\ TitleResolved
    /\ Len(argv) = 1
    /\ ~HasHeadingLine(disk)
    /\ \E i \in 1..Len(argv[1]) : argv[1][i] = "_"
    /\ \E i \in 1..Len(argv[1]) : argv[1][i] = "-"
    /\ title # argv[1]
    /\ title # <<>>

\* C3: when the title is taken from a "# <text>" line, that line is removed
\* from the body, wherever it sits: the body that goes on to the conversion
\* has one such line fewer than the document.
C3_HeadingLineRemoved ==
    (TitleResolved /\ from_heading) =>
        Cardinality(HeadingLines(md_content)) = Cardinality(HeadingLines(disk)) - 1

\* C7: the title is resolved on the text left after the front-matter block is
\* stripped: it is the first "# <text>" line of that text, or, when that text
\* has none, the title of the file name.
C7_TitleFromStrippedText ==
    (TitleResolved /\ Len(argv) = 1) =>
        LET body == StripFrontMatter(disk)
        IN  IF HasHeadingLine(body)
            THEN title = FirstHeading(body)
            ELSE title = title_from_filename(argv[1])

\* s starts with a "---\n" line and holds a later "---\n".
BeginsWithBlock(s) ==
    /\ IsPrefixAt(s, 1, Txt3Dash)
    /\ \E j \in 5..Len(s) : IsPrefixAt(s, j, Txt3Dash)

\* s begins with two consecutive blocks: right after the first "---\n" that
\* closes the first block comes a "---\n" and, later, one more.
BeginsWithTwoBlocks(s) ==
    /\ IsPrefixAt(s, 1, Txt3Dash)
    /\ \E j \in 5..Len(s) :
         /\ IsPrefixAt(s, j, Txt3Dash)
         /\ \A i \in 5..(j - 1) : ~IsPrefixAt(s, i, Txt3Dash)
         /\ IsPrefixAt(s, j + 4, Txt3Dash)
         /\ \E k \in (j + 8)..Len(s) : IsPrefixAt(s, k, Txt3Dash)

\* C4, as claimed: the front-matter removal applied to the text it has
\* already been applied to changes nothing.
C4_StripIdempotent ==
    pc = "inline" => StripFrontMatter(html) = html

\* C4, amended: the front-matter removal takes one leading block only, so a
\* second removal changes nothing exactly when the text does not begin with
\* two consecutive "---"-delimited blocks; when it does, the second removal
\* takes the second block.
C4_StripIdempotentButForTwoBlocks ==
    pc = "inline" =>
        /\ StripFrontMatter(html) = html <=> ~BeginsWithTwoBlocks(md_content)
        /\ BeginsWithTwoBlocks(md_content) => Len(StripFrontMatter(html)) < Len(html)

\* One block was stripped, text is left, and a second removal leaves it.
C4_Witness ==
    /\ pc = "inline"
    /\ BeginsWithBlock(md_content)
    /\ ~BeginsWithTwoBlocks(md_content)
    /\ html # <<>>
    /\ Len(html) < Len(md_content)
    /\ StripFrontMatter(html) = html

RECURSIVE SlugInOnePass(_, _, _)
\* The stem the claim describes, read off the title from character i on in
\* one pass: a letter or digit in lower case, a hyphen as it is, one hyphen
\* for a run of whitespace (in_run: the last character kept was whitespace),
\* nothing for any other character.
SlugInOnePass(t, i, in_run) ==
    IF i > Len(t) THEN <<>>
    ELSE LET c == LowerChar(t[i])
         IN  IF c \in Whitespace
             THEN (IF in_run THEN <<>> ELSE <<"-">>) \o SlugInOnePass(t, i + 1, TRUE)
             ELSE IF c \in LowerLetters \cup Digits \cup {"-"}
             THEN <<c>> \o SlugInOnePass(t, i + 1, FALSE)
             ELSE SlugInOnePass(t, i + 1, in_run)

\* main is past line 230: the output file name is computed.
OutputNamed == output_file # <<>>

\* C5: the output file name is <stem>.html, the stem made of lower-case
\* letters, digits and hyphens only (no whitespace, "/" or "."), got from the
\* title by lower-casing, deleting every other character and putting one
\* hyphen for each maximal run of whitespace; "Hello, World!" gives
\* hello-world.html.
C5_SlugIsSafe ==
    OutputNamed =>
        LET n == Len(output_file) - 5
            stem == SubSeq(output_file, 1, n)
        IN  /\ n >= 0
            /\ From(output_file, n + 1) = DotHtml
            /\ \A i \in 1..n : stem[i] \in LowerLetters \cup Digits \cup {"-"}
            /\ stem = SlugInOnePass(title, 1, FALSE)
            /\ title = HelloWorld =>
                 stem = <<"h", "e", "l", "l", "o", "-", "w", "o", "r", "l", "d">>

\* The explicit title "Hello, World!" and its file name.
C5_Witness ==
    /\ OutputNamed
    /\ Len(argv) = 2
    /\ title = HelloWorld
    /\ output_file = <<"h", "e", "l", "l", "o", "-", "w", "o", "r", "l", "d">> \o DotHtml

RECURSIVE SourceLinks(_, _)
\* The links [text](url) of s from position i on, as <<text, url>>: what
\* the pattern of line 35 matches in the source.
SourceLinks(s, i) ==
    IF i > Len(s) THEN {}
    ELSE LET te == RunEnd(s, i + 1, "]")
             ue == RunEnd(s, te + 3, ")")
             hit == /\ s[i] = "["
                    /\ te >= i + 1
                    /\ IsPrefixAt(s, te + 1, <<"]", "(">>)
                    /\ ue >= te + 3
                    /\ ue + 1 <= Len(s)
         IN  IF hit
             THEN {<<SubSeq(s, i + 1, te), SubSeq(s, te + 3, ue)>>} \cup SourceLinks(s, ue + 2)
             ELSE SourceLinks(s, i + 1)

\* p occurs in s.
Occurs(p, s) == \E i \in 1..(Len(s) - Len(p) + 1) : IsPrefixAt(s, i, p)

\* main is past line 222: the fragment is made.
FragmentMade ==
    \/ pc \in {"render", "open", "write", "print", "refresh"}
    \/ pc = "exit" /\ output_file # <<>>

\* C8: for every link [text](url) of the body, the fragment holds
\* <a href="url">text</a> with text and url as in the source.
C8_LinksVerbatim ==
    FragmentMade =>
        \A l \in SourceLinks(md_content, 1) : Occurs(Anchor(l[1], l[2]), html_content)

\* The paragraphs of s that are not empty, each stripped.
NonEmptyParagraphs(s) ==
    LET ps == SplitParagraphs(Strip(s))
    IN  SelectSeq([i \in 1..Len(ps) |-> Strip(ps[i])], LAMBDA p : p # <<>>)

\* b is one <p>...</p> element with no newline in it.
IsPElement(b) ==
    /\ StartsWith(b, POpen)
    /\ IsPrefixAt(b, Len(b) - 3, PClose)
    /\ \A i \in 1..Len(b) : b[i] # NL

\* b starts with a heading tag <h1>..<h4> or a list-container tag <ul, <ol.
StartsWithHeadingOrListTag(b) ==
    \/ \E d \in {"1", "2", "3", "4"} : StartsWith(b, <<"<", "h", d, ">">>)
    \/ StartsWith(b, <<"<", "u", "l">>)
    \/ StartsWith(b, <<"<", "o", "l">>)

\* C9, as claimed: every block is non-empty and either starts with a heading
\* tag <h1>..<h4> or a list-container tag, or is one <p> element with no
\* newline.
C9_BlocksAreHeadingsListsOrParagraphs ==
    FragmentMade =>
        \A i \in 1..Len(processed) :
            /\ processed[i] # <<>>
            /\ StartsWithHeadingOrListTag(processed[i]) \/ IsPElement(processed[i])

\* C9, amended: the blocks are the non-empty paragraphs in order; a paragraph
\* that starts with the characters "<h", "<ul" or "<ol" (a heading tag, a
\* list tag, or any other text that starts so, <hr> for one) is kept as it is,
\* and every other paragraph becomes one <p> element, its newlines turned to
\* single spaces.
C9_BlocksKeptOrWrapped ==
    FragmentMade =>
        LET ps == NonEmptyParagraphs(html)
        IN  /\ Len(processed) = Len(ps)
            /\ \A i \in 1..Len(ps) :
                 /\ processed[i] # <<>>
                 /\ IF \/ StartsWith(ps[i], <<"<", "h">>)
                       \/ StartsWith(ps[i], <<"<", "u", "l">>)
                       \/ StartsWith(ps[i], <<"<", "o", "l">>)
                    THEN processed[i] = ps[i]
                    ELSE /\ IsPElement(processed[i])
                         /\ processed[i] =
                              POpen \o [k \in 1..Len(ps[i]) |->
                                           IF ps[i][k] = NL THEN SP ELSE ps[i][k]]
                                    \o PClose
            /\ md_content = LineOneLineTwo =>
                 processed = <<POpen \o <<"a", SP, "1", SP, "a", SP, "2">> \o PClose>>

\* Four blocks: a paragraph of two lines wrapped, a list tag kept, a
\* paragraph wrapped, an <hr> kept.
C9_Witness ==
    /\ FragmentMade
    /\ Len(processed) = 4
    /\ processed[1] = POpen \o <<"a", SP, "1", SP, "a", SP, "2">> \o PClose
    /\ StartsWith(processed[2], <<"<", "o", "l", ">">>)
    /\ processed[3] = POpen \o <<"b">> \o PClose
    /\ processed[4] = <<"<", "h", "r", ">">>

\* s is d x d for a marker d of three stars or three underscores and a text
\* x of one line with no "*" and no "_".
IsTripleEmphasis(s) ==
    /\ Len(s) >= 6
    /\ \E d \in {Stars3, Unders3} : StartsWith(s, d) /\ IsPrefixAt(s, Len(s) - 2, d)
    /\ \A i \in 4..(Len(s) - 3) : s[i] \notin {"*", "_", NL}

\* The x of d x d.
EmphasisInner(s) == SubSeq(s, 4, Len(s) - 3)

\* The rendering the claim names.
StrongEm(x) == POpen \o StrongOpen \o EmOpen \o x \o EmClose \o StrongClose \o PClose

\* x holds an inline-code span: two backticks with one character or more,
\* none of them a backtick, between them.
HasCodeSpan(x) ==
    \E i, j \in 1..Len(x) :
        /\ j >= i + 2
        /\ x[i] = BQ
        /\ x[j] = BQ
        /\ \A m \in (i + 1)..(j - 1) : x[m] # BQ

\* x holds a link [text](url).
HasLink(x) ==
    \E i, j, k \in 1..Len(x) :
        /\ x[i] = "["
        /\ j >= i + 2
        /\ x[j] = "]"
        /\ \A m \in (i + 1)..(j - 1) : x[m] # "]"
        /\ j + 1 <= Len(x)
        /\ x[j + 1] = "("
        /\ k >= j + 3
        /\ x[k] = ")"
        /\ \A m \in (j + 2)..(k - 1) : x[m] # ")"

\* C10, as claimed: for every one-line x with no "*" and no "_", the
\* documents ***x*** and ___x___ render as <strong><em>x</em></strong>.
C10_TripleEmphasisRendersVerbatim ==
    (FragmentMade /\ IsTripleEmphasis(md_content)) =>
        html_content = StrongEm(EmphasisInner(md_content))

\* C10, amended: so it is for every x that is not empty and holds no link
\* and no inline-code span (the later substitutions leave such an x alone).
C10_TripleEmphasisOfPlainText ==
    (/\ FragmentMade
     /\ IsTripleEmphasis(md_content)
     /\ EmphasisInner(md_content) # <<>>
     /\ ~HasLink(EmphasisInner(md_content))
     /\ ~HasCodeSpan(EmphasisInner(md_content))) =>
        html_content = StrongEm(EmphasisInner(md_content))

\* ___a a___ rendered.
C10_Witness ==
    /\ FragmentMade
    /\ md_content = Unders3 \o <<"a", SP, "a">> \o Unders3
    /\ html_content = StrongEm(<<"a", SP, "a">>)

=============================================================================
